---- MODULE Spec2Model ----
(***************************************************************************)
(* Model of server/auth/authenticator.go: the Authenticator that resolves  *)
(* a bearer credential to a principal through the access-token, PAT,       *)
(* remote-delegated (Linkin) and refresh-token paths.                      *)
(*                                                                         *)
(* Go pointers are modelled as sequences of length at most one: Nil is a   *)
(* nil pointer and <<x>> points at x.  Go errors are strings, "" is nil.   *)
(***************************************************************************)
EXTENDS Integers, Sequences, FiniteSets, Bags, TLC

\* ------------------------------------------------------------------ bounds
\* Number of concurrent callers of Authenticate in SpecRace.
NumProcs == 2
\* The wall clock runs over 0..MaxClock.
MaxClock == 1
\* Most detached last-used updates in flight at once.
MaxPending == 1

Procs == 1..NumProcs
Clock == 0..MaxClock

Nil == <<>>

\* ------------------------------------------------------- values of the store
Normal == "NORMAL"
Archived == "ARCHIVED"
RoleUser == "USER"
RoleAdmin == "ADMIN"

\* Expiry of a token that lies beyond every clock value of the model.
FarFuture == MaxClock + 1

ServerSecret == "server-secret"
OtherSecret == "other-secret"

PersonalAccessTokenPrefix == "memos_pat_"

\* A bearer string.  prefix/body are its text; for a string that decodes as a
\* signed token, typ/key/sub/name/role/status/tid/exp are what it decodes to
\* (typ = "" for a string that is no signed token).
Str(prefix, body) ==
    [prefix |-> prefix, body |-> body, typ |-> "", key |-> "", sub |-> "",
     name |-> "", role |-> "", status |-> "", tid |-> "", exp |-> 0]

EmptyString == Str("", "")

AccessToken(key, sub, name, role, status, exp) ==
    [prefix |-> "", body |-> "jwt", typ |-> "access", key |-> key, sub |-> sub,
     name |-> name, role |-> role, status |-> status, tid |-> "", exp |-> exp]

RefreshToken(key, sub, tid, exp) ==
    [prefix |-> "", body |-> "jwt", typ |-> "refresh", key |-> key, sub |-> sub,
     name |-> "", role |-> "", status |-> "", tid |-> tid, exp |-> exp]

\* The identities access tokens are presented for: the subject string and the
\* username, role and status signed with it.
Identities ==
    { <<"1", "alice", RoleAdmin, Normal>>,
      <<"2", "bob", RoleUser, Normal>>,
      <<"x", "eve", RoleUser, Normal>> }

\* Signed with the server's secret, expiring at clock 0 or never within the
\* model, and one signed with another secret.
AccessTokens ==
    { AccessToken(ServerSecret, i[1], i[2], i[3], i[4], e) :
        i \in Identities, e \in {0, FarFuture} }
      \cup {AccessToken(OtherSecret, "1", "alice", RoleAdmin, Normal, FarFuture)}

TokenIDs == {"r1"}

RefreshTokens ==
    { RefreshToken(k, s, t, e) :
        k \in {ServerSecret, OtherSecret}, s \in {"1", "2", "x"}, t \in TokenIDs,
        e \in {0, FarFuture} }

PATStrings == { Str(PersonalAccessTokenPrefix, "abc123"),
                Str(PersonalAccessTokenPrefix, "abc124") }

Garbage == Str("", "garbage")

\* Every string a client presents as a bearer credential.
BearerStrings ==
    AccessTokens \cup PATStrings
      \cup {Garbage, RefreshToken(ServerSecret, "1", "r1", FarFuture)}

\* An Authorization header: its scheme word and its credential word.
Header(scheme, cred) == [scheme |-> scheme, cred |-> cred]

EmptyHeader == Header("", EmptyString)

Headers ==
    {EmptyHeader, Header("Bearer", EmptyString), Header("Basic", Garbage)}
      \cup { Header("Bearer", t) : t \in BearerStrings }
      \cup { Header("bearer", AccessToken(ServerSecret, "2", "bob", RoleUser, Normal, FarFuture)) }

\* ------------------------------------------------------------ string helpers
\* strings.HasPrefix(token, prefix), for the one prefix the code asks about.
HasPrefix(token, prefix) == token.prefix = prefix

\* The decimal strings of the model and the numbers they denote.
Decimal == [s \in {"1", "2", "3"} |-> CASE s = "1" -> 1 [] s = "2" -> 2 [] s = "3" -> 3]

\* util.ConvertStringToInt32
ConvertStringToInt32(s) ==
    IF s \in DOMAIN Decimal THEN [val |-> Decimal[s], err |-> ""]
    ELSE [val |-> 0, err |-> "strconv: invalid syntax"]

\* ExtractBearerToken: the credential of a two-word header whose first word is
\* "Bearer" in any letter case, "" otherwise.
ExtractBearerToken(authHeader) ==
    IF authHeader.scheme \in {"Bearer", "bearer"} THEN authHeader.cred ELSE EmptyString

\* HashPersonalAccessToken: a one-way hash of the full token string.
HashPersonalAccessToken(token) == <<"sha256", token.prefix, token.body>>

\* -------------------------------------------------------------- token codec
\* Verification of a signed token of shape typ with the secret at clock t.
VerifyToken(token, secret, typ, t) ==
    IF token.typ = "" THEN "Malformed"
    ELSE IF token.key # secret THEN "InvalidSignature"
    ELSE IF token.exp < t THEN "Expired"
    ELSE IF token.typ # typ THEN "InvalidType"
    ELSE ""

\* ParseAccessTokenV2
ParseAccessTokenV2(token, secret, t) ==
    [err |-> VerifyToken(token, secret, "access", t),
     Subject |-> token.sub, Username |-> token.name, Role |-> token.role,
     Status |-> token.status]

\* ParseRefreshToken
ParseRefreshToken(token, secret, t) ==
    [err |-> VerifyToken(token, secret, "refresh", t),
     Subject |-> token.sub, TokenID |-> token.tid]

\* -------------------------------------------------------------------- state
VARIABLES
    users,          \* store: the user rows
    refreshTokens,  \* store: the refresh-token rows, keyed by (UserID, TokenID)
    pats,           \* store: the personal-access-token rows, keyed by TokenHash
    storeUp,        \* whether the store answers; when FALSE every store call errors
    now,            \* the wall clock, time.Now()
    pc,             \* per caller of Authenticate: where its call stands
    call,           \* per caller of Authenticate: header, calls made, result
    pending,        \* the detached last-used updates not yet finished (a bag)
    warned,         \* whether slog.Warn has been called by a detached update
    ret             \* per standalone operation: its outstanding result, or Nil

vars == <<users, refreshTokens, pats, storeUp, now, pc, call, pending, warned, ret>>

User(id, username, role, passwordHash, rowStatus) ==
    [ID |-> id, Username |-> username, Nickname |-> username, Role |-> role,
     Email |-> "", PasswordHash |-> passwordHash, RowStatus |-> rowStatus]

\* ---------------------------------------------------------- store operations
StoreError == "store: unavailable"

\* store.FindUser: a filter on ID and/or Username, each a pointer.
FindUser(id, username) == [ID |-> id, Username |-> username]

Matches(u, find) ==
    /\ (find.ID # Nil => u.ID = find.ID[1])
    /\ (find.Username # Nil => u.Username = find.Username[1])

\* store.GetUser: the matching user, nil when there is none.
GetUser(find) ==
    IF ~storeUp THEN [user |-> Nil, err |-> StoreError]
    ELSE LET found == { u \in users : Matches(u, find) }
         IN  IF found = {} THEN [user |-> Nil, err |-> ""]
             ELSE [user |-> <<CHOOSE u \in found : TRUE>>, err |-> ""]

\* store.GetUserRefreshTokenByID: the row of (userID, tokenID), nil when absent.
GetUserRefreshTokenByID(userID, tokenID) ==
    IF ~storeUp THEN [token |-> Nil, err |-> StoreError]
    ELSE LET found == { r \in refreshTokens : r.UserID = userID /\ r.TokenID = tokenID }
         IN  IF found = {} THEN [token |-> Nil, err |-> ""]
             ELSE [token |-> <<CHOOSE r \in found : TRUE>>, err |-> ""]

\* store.GetUserByPATHash: the PAT row with that hash and its user; an error
\* when there is none.
GetUserByPATHash(tokenHash) ==
    IF ~storeUp THEN [User |-> Nil, PAT |-> Nil, err |-> StoreError]
    ELSE LET found == { r \in pats : r.TokenHash = tokenHash
                                      /\ \E u \in users : u.ID = r.UserID }
         IN  IF found = {} THEN [User |-> Nil, PAT |-> Nil, err |-> "NotFound"]
             ELSE LET r == CHOOSE r \in found : TRUE
                  IN  [User |-> <<CHOOSE u \in users : u.ID = r.UserID>>,
                       PAT |-> <<r>>, err |-> ""]

NextUserID == Cardinality(users) + 1

\* store.CreateUser: inserts the row under a fresh ID; usernames are unique.
CreateUserResult(newUser) ==
    IF ~storeUp THEN [user |-> Nil, err |-> StoreError]
    ELSE IF \E u \in users : u.Username = newUser.Username
         THEN [user |-> Nil, err |-> "Conflict"]
         ELSE [user |-> <<[newUser EXCEPT !.ID = NextUserID]>>, err |-> ""]

\* store.UpdatePATLastUsed: the error it returns, and the rows afterwards.
UpdatePATLastUsedErr(userID, tokenId) ==
    IF ~storeUp THEN StoreError
    ELSE IF ~\E r \in pats : r.UserID = userID /\ r.TokenId = tokenId THEN "NotFound"
    ELSE ""

UpdatePATLastUsedRows(userID, tokenId, ts) ==
    { IF r.UserID = userID /\ r.TokenId = tokenId THEN [r EXCEPT !.LastUsedAt = <<ts>>]
      ELSE r : r \in pats }

\* An expiry check that also rejects at the very instant of expiry.
Expired_inclusive(expiresAt, t) == expiresAt # Nil /\ expiresAt[1] <= t

\* ExpiresAt != nil && ExpiresAt.AsTime().Before(time.Now())
Expired(expiresAt, t) == expiresAt # Nil /\ expiresAt[1] < t

\* ------------------------------------------------------------- Authenticator
\* Each operation returns its results and log, the external calls it made in
\* order (token codec, store, remote identity endpoint).

\* AuthenticateByAccessTokenV2 with a store round-trip: it loads the subject's
\* user and rejects a missing or archived one.
AuthenticateByAccessTokenV2_lookup(accessToken) ==
    LET claims == ParseAccessTokenV2(accessToken, ServerSecret, now)
        conv == ConvertStringToInt32(claims.Subject)
        got == GetUser(FindUser(<<conv.val>>, Nil))
        log == <<"ParseAccessTokenV2">>
    IN  IF claims.err # "" THEN [claims |-> Nil, err |-> "invalid access token", log |-> log]
        ELSE IF conv.err # ""
        THEN [claims |-> Nil, err |-> "invalid user ID in token", log |-> log]
        ELSE IF got.err # "" \/ got.user = Nil \/ got.user[1].RowStatus = Archived
        THEN [claims |-> Nil, err |-> "user not found", log |-> Append(log, "GetUser")]
        ELSE [claims |-> <<[UserID |-> conv.val, Username |-> claims.Username,
                            Role |-> claims.Role, Status |-> claims.Status]>>,
              err |-> "", log |-> Append(log, "GetUser")]

\* Authenticator.AuthenticateByAccessTokenV2
AuthenticateByAccessTokenV2(accessToken) ==
    LET claims == ParseAccessTokenV2(accessToken, ServerSecret, now)
        conv == ConvertStringToInt32(claims.Subject)
        log == <<"ParseAccessTokenV2">>
    IN  IF claims.err # "" THEN [claims |-> Nil, err |-> "invalid access token", log |-> log]
        ELSE IF conv.err # ""
        THEN [claims |-> Nil, err |-> "invalid user ID in token", log |-> log]
        ELSE [claims |-> <<[UserID |-> conv.val, Username |-> claims.Username,
                            Role |-> claims.Role, Status |-> claims.Status]>>,
              err |-> "", log |-> log]

\* AuthenticateByRefreshToken without the check of the row's expiry.
AuthenticateByRefreshToken_noexpiry(refreshToken) ==
    LET claims == ParseRefreshToken(refreshToken, ServerSecret, now)
        conv == ConvertStringToInt32(claims.Subject)
        userID == conv.val
        row == GetUserRefreshTokenByID(userID, claims.TokenID)
        got == GetUser(FindUser(<<userID>>, Nil))
        log1 == <<"ParseRefreshToken">>
        log2 == Append(log1, "GetUserRefreshTokenByID")
        log3 == Append(log2, "GetUser")
        Fail(e, l) == [user |-> Nil, tokenID |-> "", err |-> e, log |-> l]
    IN  IF claims.err # "" THEN Fail("invalid refresh token", log1)
        ELSE IF conv.err # "" THEN Fail("invalid user ID in token", log1)
        ELSE IF row.err # "" THEN Fail("failed to get refresh token", log2)
        ELSE IF row.token = Nil THEN Fail("refresh token revoked", log2)
        ELSE IF got.err # "" THEN Fail("failed to get user", log3)
        ELSE IF got.user = Nil THEN Fail("user not found", log3)
        ELSE IF got.user[1].RowStatus = Archived THEN Fail("user is archived", log3)
        ELSE [user |-> got.user, tokenID |-> claims.TokenID, err |-> "", log |-> log3]

\* AuthenticateByRefreshToken without the revocation check: a missing row is
\* let through to the user lookup.
AuthenticateByRefreshToken_norevoke(refreshToken) ==
    LET claims == ParseRefreshToken(refreshToken, ServerSecret, now)
        conv == ConvertStringToInt32(claims.Subject)
        userID == conv.val
        row == GetUserRefreshTokenByID(userID, claims.TokenID)
        got == GetUser(FindUser(<<userID>>, Nil))
        log1 == <<"ParseRefreshToken">>
        log2 == Append(log1, "GetUserRefreshTokenByID")
        log3 == Append(log2, "GetUser")
        Fail(e, l) == [user |-> Nil, tokenID |-> "", err |-> e, log |-> l]
    IN  IF claims.err # "" THEN Fail("invalid refresh token", log1)
        ELSE IF conv.err # "" THEN Fail("invalid user ID in token", log1)
        ELSE IF row.err # "" THEN Fail("failed to get refresh token", log2)
        ELSE IF row.token # Nil /\ Expired(row.token[1].ExpiresAt, now)
        THEN Fail("refresh token expired", log2)
        ELSE IF got.err # "" THEN Fail("failed to get user", log3)
        ELSE IF got.user = Nil THEN Fail("user not found", log3)
        ELSE IF got.user[1].RowStatus = Archived THEN Fail("user is archived", log3)
        ELSE [user |-> got.user, tokenID |-> claims.TokenID, err |-> "", log |-> log3]

\* Authenticator.AuthenticateByRefreshToken
AuthenticateByRefreshToken(refreshToken) ==
    LET claims == ParseRefreshToken(refreshToken, ServerSecret, now)
        conv == ConvertStringToInt32(claims.Subject)
        userID == conv.val
        row == GetUserRefreshTokenByID(userID, claims.TokenID)
        got == GetUser(FindUser(<<userID>>, Nil))
        log1 == <<"ParseRefreshToken">>
        log2 == Append(log1, "GetUserRefreshTokenByID")
        log3 == Append(log2, "GetUser")
        Fail(e, l) == [user |-> Nil, tokenID |-> "", err |-> e, log |-> l]
    IN  IF claims.err # "" THEN Fail("invalid refresh token", log1)
        ELSE IF conv.err # "" THEN Fail("invalid user ID in token", log1)
        ELSE IF row.err # "" THEN Fail("failed to get refresh token", log2)
        ELSE IF row.token = Nil THEN Fail("refresh token revoked", log2)
        ELSE IF Expired(row.token[1].ExpiresAt, now) THEN Fail("refresh token expired", log2)
        ELSE IF got.err # "" THEN Fail("failed to get user", log3)
        ELSE IF got.user = Nil THEN Fail("user not found", log3)
        ELSE IF got.user[1].RowStatus = Archived THEN Fail("user is archived", log3)
        ELSE [user |-> got.user, tokenID |-> claims.TokenID, err |-> "", log |-> log3]

\* AuthenticateByPAT without the check of the token's expiry.
AuthenticateByPAT_noexpiry(token) ==
    LET tokenHash == HashPersonalAccessToken(token)
        result == GetUserByPATHash(tokenHash)
        log == <<"GetUserByPATHash">>
        Fail(e, l) == [user |-> Nil, pat |-> Nil, err |-> e, log |-> l]
    IN  IF ~HasPrefix(token, PersonalAccessTokenPrefix) THEN Fail("invalid PAT format", <<>>)
        ELSE IF result.err # "" THEN Fail("invalid PAT", log)
        ELSE IF result.User[1].RowStatus = Archived THEN Fail("user is archived", log)
        ELSE [user |-> result.User, pat |-> result.PAT, err |-> "", log |-> log]

\* AuthenticateByPAT without the check of the user's status.
AuthenticateByPAT_nostatus(token) ==
    LET tokenHash == HashPersonalAccessToken(token)
        result == GetUserByPATHash(tokenHash)
        log == <<"GetUserByPATHash">>
        Fail(e, l) == [user |-> Nil, pat |-> Nil, err |-> e, log |-> l]
    IN  IF ~HasPrefix(token, PersonalAccessTokenPrefix) THEN Fail("invalid PAT format", <<>>)
        ELSE IF result.err # "" THEN Fail("invalid PAT", log)
        ELSE IF Expired(result.PAT[1].ExpiresAt, now) THEN Fail("PAT expired", log)
        ELSE [user |-> result.User, pat |-> result.PAT, err |-> "", log |-> log]

\* Authenticator.AuthenticateByPAT
AuthenticateByPAT(token) ==
    LET tokenHash == HashPersonalAccessToken(token)
        result == GetUserByPATHash(tokenHash)
        log == <<"GetUserByPATHash">>
        Fail(e, l) == [user |-> Nil, pat |-> Nil, err |-> e, log |-> l]
    IN  IF ~HasPrefix(token, PersonalAccessTokenPrefix) THEN Fail("invalid PAT format", <<>>)
        ELSE IF result.err # "" THEN Fail("invalid PAT", log)
        ELSE IF Expired(result.PAT[1].ExpiresAt, now) THEN Fail("PAT expired", log)
        ELSE IF result.User[1].RowStatus = Archived THEN Fail("user is archived", log)
        ELSE [user |-> result.User, pat |-> result.PAT, err |-> "", log |-> log]

\* AuthResult
AuthResult(user, claims, accessToken) ==
    [User |-> user, Claims |-> claims, AccessToken |-> accessToken]

\* The detached last-used update of Authenticate: its arguments, and the
\* timestamp once timestamppb.Now() has been evaluated.
Task(userID, tokenId, ts) == [UserID |-> userID, TokenId |-> tokenId, ts |-> ts]

\* Authenticate forwarding a token to the remote endpoint whenever neither
\* local path succeeded, a PAT-prefixed token included.
AuthenticateLocal_patfallback(authHeader) ==
    LET token == ExtractBearerToken(authHeader)
        tryAccess == token # EmptyString /\ ~HasPrefix(token, PersonalAccessTokenPrefix)
        tryPAT == token # EmptyString /\ HasPrefix(token, PersonalAccessTokenPrefix)
        a == AuthenticateByAccessTokenV2(token)
        b == AuthenticateByPAT(token)
    IN  IF tryAccess /\ a.err = "" /\ a.claims # Nil
        THEN [result |-> <<AuthResult(Nil, a.claims, token)>>, log |-> a.log,
              spawn |-> Nil, remote |-> FALSE]
        ELSE IF tryPAT /\ b.err = "" /\ b.user # Nil
        THEN [result |-> <<AuthResult(b.user, Nil, token)>>, log |-> b.log,
              spawn |-> <<Task(b.user[1].ID, b.pat[1].TokenId, Nil)>>, remote |-> FALSE]
        ELSE [result |-> Nil,
              log |-> IF tryAccess THEN a.log ELSE IF tryPAT THEN b.log ELSE <<>>,
              spawn |-> Nil, remote |-> token # EmptyString]

\* Authenticate ending the call when the access-token path fails, without the
\* remote fallback.
AuthenticateLocal_hardfail(authHeader) ==
    LET token == ExtractBearerToken(authHeader)
        tryAccess == token # EmptyString /\ ~HasPrefix(token, PersonalAccessTokenPrefix)
        tryPAT == token # EmptyString /\ HasPrefix(token, PersonalAccessTokenPrefix)
        a == AuthenticateByAccessTokenV2(token)
        b == AuthenticateByPAT(token)
    IN  IF tryAccess /\ a.err = "" /\ a.claims # Nil
        THEN [result |-> <<AuthResult(Nil, a.claims, token)>>, log |-> a.log,
              spawn |-> Nil, remote |-> FALSE]
        ELSE IF tryPAT /\ b.err = "" /\ b.user # Nil
        THEN [result |-> <<AuthResult(b.user, Nil, token)>>, log |-> b.log,
              spawn |-> <<Task(b.user[1].ID, b.pat[1].TokenId, Nil)>>, remote |-> FALSE]
        ELSE [result |-> Nil,
              log |-> IF tryAccess THEN a.log ELSE IF tryPAT THEN b.log ELSE <<>>,
              spawn |-> Nil, remote |-> FALSE]

\* Authenticate deciding on the remote fallback by the raw header instead of
\* the extracted token.
AuthenticateLocal_rawheader(authHeader) ==
    LET token == ExtractBearerToken(authHeader)
        tryAccess == token # EmptyString /\ ~HasPrefix(token, PersonalAccessTokenPrefix)
        tryPAT == token # EmptyString /\ HasPrefix(token, PersonalAccessTokenPrefix)
        tryLinkin == authHeader # EmptyHeader /\ ~HasPrefix(token, PersonalAccessTokenPrefix)
        a == AuthenticateByAccessTokenV2(token)
        b == AuthenticateByPAT(token)
    IN  IF tryAccess /\ a.err = "" /\ a.claims # Nil
        THEN [result |-> <<AuthResult(Nil, a.claims, token)>>, log |-> a.log,
              spawn |-> Nil, remote |-> FALSE]
        ELSE IF tryPAT /\ b.err = "" /\ b.user # Nil
        THEN [result |-> <<AuthResult(b.user, Nil, token)>>, log |-> b.log,
              spawn |-> <<Task(b.user[1].ID, b.pat[1].TokenId, Nil)>>, remote |-> FALSE]
        ELSE [result |-> Nil,
              log |-> IF tryAccess THEN a.log ELSE IF tryPAT THEN b.log ELSE <<>>,
              spawn |-> Nil, remote |-> tryLinkin]

\* Authenticator.Authenticate up to the remote request: the access-token path
\* and the PAT path.  remote says that the call goes on to
\* AuthenticateByLinkinToken; spawn is the detached update it starts, if any.
AuthenticateLocal(authHeader) ==
    LET token == ExtractBearerToken(authHeader)
        tryAccess == token # EmptyString /\ ~HasPrefix(token, PersonalAccessTokenPrefix)
        tryPAT == token # EmptyString /\ HasPrefix(token, PersonalAccessTokenPrefix)
        a == AuthenticateByAccessTokenV2(token)
        b == AuthenticateByPAT(token)
    IN  IF tryAccess /\ a.err = "" /\ a.claims # Nil
        THEN [result |-> <<AuthResult(Nil, a.claims, token)>>, log |-> a.log,
              spawn |-> Nil, remote |-> FALSE]
        ELSE IF tryPAT /\ b.err = "" /\ b.user # Nil
        THEN [result |-> <<AuthResult(b.user, Nil, token)>>, log |-> b.log,
              spawn |-> <<Task(b.user[1].ID, b.pat[1].TokenId, Nil)>>, remote |-> FALSE]
        ELSE IF tryAccess
        THEN [result |-> Nil, log |-> a.log, spawn |-> Nil, remote |-> authHeader # EmptyHeader]
        ELSE [result |-> Nil, log |-> IF tryPAT THEN b.log ELSE <<>>,
              spawn |-> Nil, remote |-> FALSE]

\* What the remote identity endpoint answers: a transport error, or a status
\* code with a body that decodes or not to a username.
Response(err, status, decodes, username) ==
    [err |-> err, StatusCode |-> status, decodes |-> decodes, Username |-> username]

RemoteNames == {"alice", "newperson"}

RemoteResponses ==
    { Response("timeout", 0, FALSE, ""), Response("", 401, TRUE, ""),
      Response("", 200, FALSE, ""), Response("", 200, TRUE, "") }
      \cup { Response("", 200, TRUE, n) : n \in RemoteNames }

\* AuthenticateByLinkinToken without the check of an empty username.
LinkinLookup_noempty(resp) ==
    LET got == GetUser(FindUser(Nil, <<resp.Username>>))
        Fail(e, l) == [user |-> Nil, err |-> e, log |-> l, create |-> FALSE]
    IN  IF resp.err # "" THEN Fail(resp.err, <<>>)
        ELSE IF resp.StatusCode # 200 THEN Fail("linkin auth failed", <<>>)
        ELSE IF ~resp.decodes THEN Fail("json: cannot decode", <<>>)
        ELSE IF got.err # "" THEN Fail(got.err, <<"GetUser">>)
        ELSE IF got.user # Nil
        THEN [user |-> got.user, err |-> "", log |-> <<"GetUser">>, create |-> FALSE]
        ELSE [user |-> Nil, err |-> "", log |-> <<"GetUser">>, create |-> TRUE]

\* Authenticator.AuthenticateByLinkinToken from the response of client.Do to
\* the lookup by username.  create says that the call goes on to CreateUser.
LinkinLookup(resp) ==
    LET got == GetUser(FindUser(Nil, <<resp.Username>>))
        Fail(e, l) == [user |-> Nil, err |-> e, log |-> l, create |-> FALSE]
    IN  IF resp.err # "" THEN Fail(resp.err, <<>>)
        ELSE IF resp.StatusCode # 200 THEN Fail("linkin auth failed", <<>>)
        ELSE IF ~resp.decodes THEN Fail("json: cannot decode", <<>>)
        ELSE IF resp.Username = "" THEN Fail("linkin user invalid", <<>>)
        ELSE IF got.err # "" THEN Fail(got.err, <<"GetUser">>)
        ELSE IF got.user # Nil
        THEN [user |-> got.user, err |-> "", log |-> <<"GetUser">>, create |-> FALSE]
        ELSE [user |-> Nil, err |-> "", log |-> <<"GetUser">>, create |-> TRUE]

\* A shadow account built with the administrator role.
NewShadowUser_admin(username) == User(0, username, RoleAdmin, "", Normal)

\* The shadow account AuthenticateByLinkinToken builds for a username.
NewShadowUser(username) == User(0, username, RoleUser, "", Normal)

\* The creation of the shadow account with the error of CreateUser ignored:
\* the record that was to be inserted is returned.
LinkinCreate_ignoreerr(username) ==
    LET created == CreateUserResult(NewShadowUser(username))
    IN  IF created.err # ""
        THEN [user |-> <<NewShadowUser(username)>>, err |-> "", log |-> <<"CreateUser">>]
        ELSE [user |-> created.user, err |-> "", log |-> <<"CreateUser">>]

\* Authenticator.AuthenticateByLinkinToken, the creation of the shadow account.
LinkinCreate(username) ==
    LET created == CreateUserResult(NewShadowUser(username))
    IN  IF created.err # "" THEN [user |-> Nil, err |-> created.err, log |-> <<"CreateUser">>]
        ELSE [user |-> created.user, err |-> "", log |-> <<"CreateUser">>]

\* The return of Authenticate after AuthenticateByLinkinToken, filling in
\* Claims from the user as well as User.
LinkinResult_both(user, err, token) ==
    IF err = "" /\ user # Nil
    THEN <<AuthResult(user, <<[UserID |-> user[1].ID, Username |-> user[1].Username,
                              Role |-> user[1].Role, Status |-> user[1].RowStatus]>>, token)>>
    ELSE Nil

\* Authenticator.Authenticate, what it returns after AuthenticateByLinkinToken.
LinkinResult(user, err, token) ==
    IF err = "" /\ user # Nil THEN <<AuthResult(user, Nil, token)>> ELSE Nil

\* ------------------------------------------------------------------- actions
\* resp is the remote endpoint's answer once client.Do has returned.
IdleCall == [authHeader |-> EmptyHeader, log |-> <<>>, result |-> Nil, resp |-> Nil]

\* A caller enters Authenticate with a header and runs it up to its return or
\* up to the request to the remote identity endpoint.
\* The entering step of Authenticate, with at most cap detached updates in
\* flight.
AuthenticateWithin(p, authHeader, cap) ==
    /\ pc[p] = "idle"
    /\ LET r == AuthenticateLocal(authHeader)
       IN  /\ r.spawn # Nil => BagCardinality(pending) < cap
           /\ pending' = IF r.spawn # Nil THEN pending (+) SetToBag({r.spawn[1]}) ELSE pending
           /\ pc' = [pc EXCEPT ![p] = IF r.remote THEN "linkin_wait" ELSE "done"]
           /\ call' = [call EXCEPT ![p] =
                  [authHeader |-> authHeader,
                   log |-> IF r.remote THEN Append(r.log, "LinkinInfo") ELSE r.log,
                   result |-> r.result, resp |-> Nil]]
    /\ UNCHANGED <<users, refreshTokens, pats, storeUp, now, warned, ret>>

Authenticate(p, authHeader) == AuthenticateWithin(p, authHeader, MaxPending)

\* The return of client.Do with the matched local user brought in line with
\* the remote identity: its password login is disabled like a shadow account's.
LinkinRespond_sync(p, resp) ==
    /\ pc[p] = "linkin_wait"
    /\ LET r == LinkinLookup(resp)
           token == ExtractBearerToken(call[p].authHeader)
           synced == IF r.user # Nil THEN <<[r.user[1] EXCEPT !.PasswordHash = ""]>> ELSE Nil
       IN  /\ pc' = [pc EXCEPT ![p] = IF r.create THEN "linkin_create" ELSE "done"]
           /\ users' = IF r.user # Nil THEN (users \ {r.user[1]}) \cup {synced[1]} ELSE users
           /\ call' = [call EXCEPT ![p].log = @ \o r.log,
                                   ![p].resp = <<resp>>,
                                   ![p].result = IF r.create THEN Nil
                                                 ELSE LinkinResult(synced, r.err, token)]
    /\ UNCHANGED <<refreshTokens, pats, storeUp, now, pending, warned, ret>>

\* client.Do returns: the response is checked and the user looked up.
LinkinRespond(p, resp) ==
    /\ pc[p] = "linkin_wait"
    /\ LET r == LinkinLookup(resp)
           token == ExtractBearerToken(call[p].authHeader)
       IN  /\ pc' = [pc EXCEPT ![p] = IF r.create THEN "linkin_create" ELSE "done"]
           /\ call' = [call EXCEPT ![p].log = @ \o r.log,
                                   ![p].resp = <<resp>>,
                                   ![p].result = IF r.create THEN Nil
                                                 ELSE LinkinResult(r.user, r.err, token)]
    /\ UNCHANGED <<users, refreshTokens, pats, storeUp, now, pending, warned, ret>>

\* client.Do without a timeout: it returns only when the endpoint answers.
LinkinTimeout_never(p) ==
    /\ FALSE
    /\ UNCHANGED vars

\* The client's timeout ends a request the endpoint has not answered.
LinkinTimeout(p) == LinkinRespond(p, Response("timeout", 0, FALSE, ""))

\* The shadow account is created and the call returns.
LinkinCreateUser(p) ==
    /\ pc[p] = "linkin_create"
    /\ LET r == LinkinCreate(call[p].resp[1].Username)
           token == ExtractBearerToken(call[p].authHeader)
       IN  /\ users' = IF r.err = "" THEN users \cup {r.user[1]} ELSE users
           /\ pc' = [pc EXCEPT ![p] = "done"]
           /\ call' = [call EXCEPT ![p].log = @ \o r.log,
                                   ![p].result = LinkinResult(r.user, r.err, token)]
    /\ UNCHANGED <<refreshTokens, pats, storeUp, now, pending, warned, ret>>

\* The caller has taken the result of Authenticate.
AuthenticateReturn(p) ==
    /\ pc[p] = "done"
    /\ pc' = [pc EXCEPT ![p] = "idle"]
    /\ call' = [call EXCEPT ![p] = IdleCall]
    /\ UNCHANGED <<users, refreshTokens, pats, storeUp, now, pending, warned, ret>>

\* The detached update evaluates timestamppb.Now().
UpdateStamp(task) ==
    /\ BagIn(task, pending)
    /\ task.ts = Nil
    /\ pending' = (pending (-) SetToBag({task})) (+) SetToBag({[task EXCEPT !.ts = <<now>>]})
    /\ UNCHANGED <<users, refreshTokens, pats, storeUp, now, pc, call, warned, ret>>

\* The detached update handing its failure to the callers: a failed update
\* withdraws the results not yet taken.
UpdateWrite_propagate(task) ==
    /\ BagIn(task, pending)
    /\ task.ts # Nil
    /\ LET err == UpdatePATLastUsedErr(task.UserID, task.TokenId)
       IN  /\ pats' = IF err = "" THEN UpdatePATLastUsedRows(task.UserID, task.TokenId, task.ts[1])
                      ELSE pats
           /\ warned' = (warned \/ err # "")
           /\ call' = [p \in Procs |->
                          IF err # "" /\ pc[p] = "done" THEN [call[p] EXCEPT !.result = Nil]
                          ELSE call[p]]
    /\ pending' = pending (-) SetToBag({task})
    /\ UNCHANGED <<users, refreshTokens, storeUp, now, pc, ret>>

\* The detached update keeping the latest time of use: an older stamp does not
\* replace a newer one.
UpdateWrite_latest(task) ==
    /\ BagIn(task, pending)
    /\ task.ts # Nil
    /\ LET err == UpdatePATLastUsedErr(task.UserID, task.TokenId)
           newer(r) == r.LastUsedAt # Nil /\ r.LastUsedAt[1] > task.ts[1]
       IN  /\ pats' = IF err = "" /\ ~\E r \in pats : newer(r)
                      THEN UpdatePATLastUsedRows(task.UserID, task.TokenId, task.ts[1])
                      ELSE pats
           /\ warned' = (warned \/ err # "")
    /\ pending' = pending (-) SetToBag({task})
    /\ UNCHANGED <<users, refreshTokens, storeUp, now, pc, call, ret>>

\* The detached update calls store.UpdatePATLastUsed and logs its failure.
UpdateWrite(task) ==
    /\ BagIn(task, pending)
    /\ task.ts # Nil
    /\ LET err == UpdatePATLastUsedErr(task.UserID, task.TokenId)
       IN  /\ pats' = IF err = "" THEN UpdatePATLastUsedRows(task.UserID, task.TokenId, task.ts[1])
                      ELSE pats
           /\ warned' = (warned \/ err # "")
    /\ pending' = pending (-) SetToBag({task})
    /\ UNCHANGED <<users, refreshTokens, storeUp, now, pc, call, ret>>

StandaloneOps == {"AuthenticateByRefreshToken", "AuthenticateByPAT"}

\* A standalone call of AuthenticateByRefreshToken by an issuance endpoint.
RefreshCall(refreshToken) ==
    /\ ret["AuthenticateByRefreshToken"] = Nil
    /\ LET r == AuthenticateByRefreshToken(refreshToken)
       IN  ret' = [ret EXCEPT !["AuthenticateByRefreshToken"] =
                     <<[arg |-> refreshToken, user |-> r.user, tokenID |-> r.tokenID,
                        pat |-> Nil, err |-> r.err, log |-> r.log]>>]
    /\ UNCHANGED <<users, refreshTokens, pats, storeUp, now, pc, call, pending, warned>>

\* A standalone call of AuthenticateByPAT.
\* A standalone call of AuthenticateByPAT recording the use of the token as
\* Authenticate does.
PATCall_touch(token) ==
    /\ ret["AuthenticateByPAT"] = Nil
    /\ LET r == AuthenticateByPAT(token)
       IN  /\ ret' = [ret EXCEPT !["AuthenticateByPAT"] =
                        <<[arg |-> token, user |-> r.user, tokenID |-> "",
                           pat |-> r.pat, err |-> r.err, log |-> r.log]>>]
           /\ pats' = IF r.err = ""
                      THEN UpdatePATLastUsedRows(r.user[1].ID, r.pat[1].TokenId, now)
                      ELSE pats
    /\ UNCHANGED <<users, refreshTokens, storeUp, now, pc, call, pending, warned>>

PATCall(token) ==
    /\ ret["AuthenticateByPAT"] = Nil
    /\ LET r == AuthenticateByPAT(token)
       IN  ret' = [ret EXCEPT !["AuthenticateByPAT"] =
                     <<[arg |-> token, user |-> r.user, tokenID |-> "",
                        pat |-> r.pat, err |-> r.err, log |-> r.log]>>]
    /\ UNCHANGED <<users, refreshTokens, pats, storeUp, now, pc, call, pending, warned>>

\* The endpoint has taken the result of the standalone call.
StandaloneReturn(op) ==
    /\ ret[op] # Nil
    /\ ret' = [ret EXCEPT ![op] = Nil]
    /\ UNCHANGED <<users, refreshTokens, pats, storeUp, now, pc, call, pending, warned>>

\* --------------------------------------------------------------- environment
\* An administrator archives or restores a user.
SetRowStatus(id, status) ==
    /\ \E u \in users : u.ID = id /\ u.RowStatus # status
    /\ users' = { IF u.ID = id THEN [u EXCEPT !.RowStatus = status] ELSE u : u \in users }
    /\ UNCHANGED <<refreshTokens, pats, storeUp, now, pc, call, pending, warned, ret>>

ArchiveUser(id) == SetRowStatus(id, Archived)

\* An administrator deletes a user; the rows of its credentials stay.
DeleteUser(id) ==
    /\ \E u \in users : u.ID = id
    /\ users' = { u \in users : u.ID # id }
    /\ UNCHANGED <<refreshTokens, pats, storeUp, now, pc, call, pending, warned, ret>>

RestoreUser(id) == SetRowStatus(id, Normal)

Tick ==
    /\ now < MaxClock
    /\ now' = now + 1
    /\ UNCHANGED <<users, refreshTokens, pats, storeUp, pc, call, pending, warned, ret>>

StoreFail ==
    /\ storeUp
    /\ storeUp' = FALSE
    /\ UNCHANGED <<users, refreshTokens, pats, now, pc, call, pending, warned, ret>>

StoreRecover ==
    /\ ~storeUp
    /\ storeUp' = TRUE
    /\ UNCHANGED <<users, refreshTokens, pats, now, pc, call, pending, warned, ret>>

\* The expiry a stored credential is given: none, or a clock value.
Expiries == {Nil, <<0>>}

PATRow(userID, tokenId, token, expiresAt) ==
    [UserID |-> userID, TokenId |-> tokenId, TokenHash |-> HashPersonalAccessToken(token),
     ExpiresAt |-> expiresAt, LastUsedAt |-> Nil]

\* The one PAT a user of the model creates: alice's, for the secret "abc123".
AlicePAT(expiresAt) == PATRow(1, "t1", Str(PersonalAccessTokenPrefix, "abc123"), expiresAt)

CreatePAT(expiresAt) ==
    /\ pats = {}
    /\ pats' = {AlicePAT(expiresAt)}
    /\ UNCHANGED <<users, refreshTokens, storeUp, now, pc, call, pending, warned, ret>>

DeletePAT ==
    /\ pats # {}
    /\ pats' = {}
    /\ UNCHANGED <<users, refreshTokens, storeUp, now, pc, call, pending, warned, ret>>

RefreshRow(userID, tokenID, expiresAt) ==
    [UserID |-> userID, TokenID |-> tokenID, ExpiresAt |-> expiresAt]

\* Login issues a refresh token and stores its row.
CreateRefreshToken(userID, tokenID, expiresAt) ==
    /\ \E u \in users : u.ID = userID
    /\ ~\E r \in refreshTokens : r.UserID = userID /\ r.TokenID = tokenID
    /\ refreshTokens' = refreshTokens \cup {RefreshRow(userID, tokenID, expiresAt)}
    /\ UNCHANGED <<users, pats, storeUp, now, pc, call, pending, warned, ret>>

\* Logout or rotation deletes the row: the token is revoked.
DeleteRefreshToken(row) ==
    /\ row \in refreshTokens
    /\ refreshTokens' = refreshTokens \ {row}
    /\ UNCHANGED <<users, pats, storeUp, now, pc, call, pending, warned, ret>>

\* ------------------------------------------------------------ specifications
Alice == User(1, "alice", RoleAdmin, "hash-alice", Normal)
Bob == User(2, "bob", RoleUser, "hash-bob", Normal)

Init ==
    /\ users = {Alice, Bob}
    /\ refreshTokens = {}
    /\ pats = {}
    /\ storeUp = TRUE
    /\ now = 0
    /\ pc = [p \in Procs |-> "idle"]
    /\ call = [p \in Procs |-> IdleCall]
    /\ pending = EmptyBag
    /\ warned = FALSE
    /\ ret = [op \in StandaloneOps |-> Nil]

UserIDs == 1..3

\* One caller of Authenticate at a time, in a store that changes under it.
Next ==
    \/ \E h \in Headers : Authenticate(1, h)
    \/ \E resp \in RemoteResponses : LinkinRespond(1, resp)
    \/ LinkinCreateUser(1)
    \/ AuthenticateReturn(1)
    \/ \E task \in BagToSet(pending) : UpdateStamp(task)
    \/ \E task \in BagToSet(pending) : UpdateWrite(task)
    \/ \E id \in UserIDs : ArchiveUser(id)
    \/ \E id \in UserIDs : RestoreUser(id)
    \/ Tick
    \/ StoreFail
    \/ StoreRecover
    \/ \E e \in Expiries : CreatePAT(e)
    \/ DeletePAT

Spec == Init /\ [][Next]_vars

\* The standalone operations of the issuance endpoints, in a store whose
\* users, refresh-token rows and PAT rows change between the calls.
NextStandalone ==
    \/ \E t \in RefreshTokens : RefreshCall(t)
    \/ \E t \in PATStrings \cup {Garbage} : PATCall(t)
    \/ \E op \in StandaloneOps : StandaloneReturn(op)
    \/ \E id \in UserIDs : ArchiveUser(id)
    \/ \E id \in UserIDs : RestoreUser(id)
    \/ Tick
    \/ StoreFail
    \/ StoreRecover
    \/ \E e \in Expiries : CreatePAT(e)
    \/ DeletePAT
    \/ \E id \in UserIDs, t \in TokenIDs, e \in Expiries : CreateRefreshToken(id, t, e)
    \/ \E row \in refreshTokens : DeleteRefreshToken(row)
    \/ DeleteUser(2)

SpecStandalone == Init /\ [][NextStandalone]_vars

\* The headers of the concurrent callers: alice's PAT, and a bearer string the
\* access-token path rejects, which goes to the remote identity endpoint.
RaceHeaders == { Header("Bearer", Str(PersonalAccessTokenPrefix, "abc123")),
                 Header("Bearer", Garbage) }

\* Concurrent callers of Authenticate: their steps and the steps of the
\* detached updates interleave in any order.
NextRace ==
    \/ \E p \in Procs, h \in RaceHeaders : Authenticate(p, h)
    \/ \E p \in Procs, resp \in RemoteResponses : LinkinRespond(p, resp)
    \/ \E p \in Procs : LinkinCreateUser(p)
    \/ \E p \in Procs : AuthenticateReturn(p)
    \/ \E task \in BagToSet(pending) : UpdateStamp(task)
    \/ \E task \in BagToSet(pending) : UpdateWrite(task)
    \/ Tick
    \/ \E e \in Expiries : CreatePAT(e)

SpecRace == Init /\ [][NextRace]_vars

\* The headers that carry a PAT-prefixed bearer string.
PATHeaders == { Header("Bearer", t) : t \in PATStrings }

\* The PAT path, through Authenticate and as the standalone operation, in a
\* store whose PAT row and users change and which may fail.
NextPAT ==
    \/ \E h \in PATHeaders : Authenticate(1, h)
    \/ AuthenticateReturn(1)
    \/ \E t \in PATStrings : PATCall(t)
    \/ StandaloneReturn("AuthenticateByPAT")
    \/ \E task \in BagToSet(pending) : UpdateStamp(task)
    \/ \E task \in BagToSet(pending) : UpdateWrite(task)
    \/ ArchiveUser(1)
    \/ RestoreUser(1)
    \/ Tick
    \/ StoreFail
    \/ StoreRecover
    \/ \E e \in Expiries : CreatePAT(e)
    \/ DeletePAT

SpecPAT == Init /\ [][NextPAT]_vars

\* Concurrent uses of alice's PAT through Authenticate, one detached update
\* for each caller in flight at most.
AlicePATHeader == Header("Bearer", Str(PersonalAccessTokenPrefix, "abc123"))

NextLWW ==
    \/ \E p \in Procs : AuthenticateWithin(p, AlicePATHeader, NumProcs)
    \/ \E p \in Procs : AuthenticateReturn(p)
    \/ \E task \in BagToSet(pending) : UpdateStamp(task)
    \/ \E task \in BagToSet(pending) : UpdateWrite(task)
    \/ Tick
    \/ \E e \in Expiries : CreatePAT(e)

SpecLWW == Init /\ [][NextLWW]_vars

\* Every operation of the authenticator side by side: one caller of
\* Authenticate on each of its paths, the standalone operations and the
\* detached updates, over a store that gains alice's credentials.
FrameHeaders ==
    { Header("Bearer", AccessToken(ServerSecret, "1", "alice", RoleAdmin, Normal, FarFuture)),
      Header("Bearer", Garbage) }
      \cup PATHeaders

FrameRefreshTokens ==
    { RefreshToken(k, "1", "r1", FarFuture) : k \in {ServerSecret, OtherSecret} }

NextFrame ==
    \/ \E h \in FrameHeaders : Authenticate(1, h)
    \/ \E resp \in RemoteResponses : LinkinRespond(1, resp)
    \/ LinkinCreateUser(1)
    \/ AuthenticateReturn(1)
    \/ \E t \in FrameRefreshTokens : RefreshCall(t)
    \/ \E t \in PATStrings : PATCall(t)
    \/ \E op \in StandaloneOps : StandaloneReturn(op)
    \/ \E task \in BagToSet(pending) : UpdateStamp(task)
    \/ \E task \in BagToSet(pending) : UpdateWrite(task)
    \/ Tick
    \/ CreatePAT(Nil)
    \/ CreateRefreshToken(1, "r1", Nil)

SpecFrame == Init /\ [][NextFrame]_vars

\* One caller of Authenticate against a remote endpoint that may answer or
\* not.  The client's timeout always ends an unanswered request, and a call of
\* the store returns; no answer of the endpoint is required to arrive.
NextLive ==
    \/ \E h \in Headers : Authenticate(1, h)
    \/ \E resp \in RemoteResponses : resp.err = "" /\ LinkinRespond(1, resp)
    \/ LinkinTimeout(1)
    \/ LinkinCreateUser(1)
    \/ AuthenticateReturn(1)
    \/ Tick
    \/ StoreFail
    \/ StoreRecover

SpecLive ==
    Init /\ [][NextLive]_vars /\ WF_vars(LinkinTimeout(1)) /\ WF_vars(LinkinCreateUser(1))

\* -------------------------------------------------------------------- claims
\* A step in which caller p enters Authenticate, and one in which it returns.
Entered(p) == pc[p] = "idle" /\ pc'[p] # "idle"
Returned(p) == pc[p] # "done" /\ pc'[p] = "done"

\* The ID of the user an AuthResult names.
PrincipalID(res) == IF res.Claims # Nil THEN res.Claims[1].UserID ELSE res.User[1].ID

IsArchived(id) == \E u \in users : u.ID = id /\ u.RowStatus = Archived

\* C1: whenever Authenticate returns an AuthResult, the user it resolves to is
\* not Archived in the store at the time of the call, whatever the credential
\* kind (access token, PAT, remote identity).
C1_ArchivedNeverAuthenticates ==
    [][\A p \in Procs :
          (Returned(p) /\ call'[p].result # Nil)
              => ~IsArchived(PrincipalID(call'[p].result[1]))]_vars

\* A step in which a standalone operation is called.
Called(op) == ret[op] = Nil /\ ret'[op] # Nil

\* A refresh token signed with the server's secret.
ValidlySigned(t) == t.typ = "refresh" /\ t.key = ServerSecret

IsDecimal(str) == str \in {"1", "2", "3"}

\* The store holds no row for the token's (subject user id, token id).
RowAbsent(t) ==
    ~\E r \in refreshTokens :
        IsDecimal(t.sub) /\ r.UserID = Decimal[t.sub] /\ r.TokenID = t.tid

\* C2 as stated: a call of AuthenticateByRefreshToken with a validly signed
\* token (of a numeric subject) whose row is absent from an answering store
\* (deleted, or never stored) fails with the 'revoked' error and returns no
\* user.
C2_AbsentRowIsRevoked ==
    [][LET r == ret'["AuthenticateByRefreshToken"][1]
       IN  (/\ Called("AuthenticateByRefreshToken") /\ ValidlySigned(r.arg)
            /\ IsDecimal(r.arg.sub) /\ RowAbsent(r.arg) /\ storeUp)
              => (r.err = "refresh token revoked" /\ r.user = Nil)]_vars

\* C2 as amended: such a call always fails and returns no user; the error is
\* 'revoked' when the token is also unexpired, its subject is numeric and the
\* store's lookup answers.
C2_AbsentRowNeverSucceeds ==
    [][LET r == ret'["AuthenticateByRefreshToken"][1]
       IN  (Called("AuthenticateByRefreshToken") /\ ValidlySigned(r.arg) /\ RowAbsent(r.arg))
              => /\ r.err # ""
                 /\ r.user = Nil
                 /\ (r.arg.exp >= now /\ IsDecimal(r.arg.sub) /\ storeUp)
                        => r.err = "refresh token revoked"]_vars

\* A revoked token was presented: validly signed, unexpired, for user 1, with
\* no row in an answering store, and the call ended 'revoked'.
C2_Witness ==
    /\ ret["AuthenticateByRefreshToken"] # Nil
    /\ LET r == ret["AuthenticateByRefreshToken"][1]
       IN  /\ ValidlySigned(r.arg) /\ r.arg.sub = "1" /\ r.arg.exp >= now
           /\ RowAbsent(r.arg) /\ storeUp
           /\ r.err = "refresh token revoked"

\* A bearer string that is a validly signed, unexpired access token without
\* the PAT prefix and with a numeric subject.
ValidAccessToken(t, clock) ==
    /\ t.typ = "access" /\ t.key = ServerSecret /\ t.exp >= clock
    /\ t.prefix # PersonalAccessTokenPrefix /\ IsDecimal(t.sub)

IsBearer(h) == h.scheme \in {"Bearer", "bearer"}

\* C3: Authenticate with a valid access token returns at once an AuthResult
\* whose Claims are the signed fields, having called only the token codec: no
\* store operation, no remote identity call, no change of the store.
C3_AccessTokenStateless ==
    [][\A p \in Procs :
          LET h == call'[p].authHeader
              t == h.cred
          IN  (Entered(p) /\ IsBearer(h) /\ ValidAccessToken(t, now))
                 => /\ pc'[p] = "done"
                    /\ call'[p].result =
                         <<[User |-> Nil,
                            Claims |-> <<[UserID |-> Decimal[t.sub], Username |-> t.name,
                                          Role |-> t.role, Status |-> t.status]>>,
                            AccessToken |-> t]>>
                    /\ call'[p].log = <<"ParseAccessTokenV2">>
                    /\ UNCHANGED <<users, refreshTokens, pats, pending>>]_vars

\* A valid access token authenticated while the store was down.
C3_Witness ==
    /\ pc[1] = "done" /\ ~storeUp
    /\ ValidAccessToken(call[1].authHeader.cred, now)
    /\ call[1].result # Nil /\ call[1].result[1].Claims # Nil

\* C4: a standalone AuthenticateByRefreshToken or AuthenticateByPAT call whose
\* owning user is Archived returns an error and no user.
C4_StandaloneRejectsArchived ==
    [][/\ LET r == ret'["AuthenticateByRefreshToken"][1]
          IN  (/\ Called("AuthenticateByRefreshToken")
               /\ IsDecimal(r.arg.sub) /\ IsArchived(Decimal[r.arg.sub]))
                  => (r.err # "" /\ r.user = Nil)
       /\ LET r == ret'["AuthenticateByPAT"][1]
          IN  (/\ Called("AuthenticateByPAT")
               /\ \E row \in pats : /\ row.TokenHash = <<"sha256", r.arg.prefix, r.arg.body>>
                                    /\ IsArchived(row.UserID))
                  => (r.err # "" /\ r.user = Nil)]_vars

\* Both operations have rejected an otherwise valid credential of an archived
\* user: the row exists and is unexpired, the refresh token verifies.
C4_Witness ==
    /\ ret["AuthenticateByRefreshToken"] # Nil /\ ret["AuthenticateByPAT"] # Nil
    /\ ret["AuthenticateByRefreshToken"][1].err = "user is archived"
    /\ ret["AuthenticateByPAT"][1].err = "user is archived"

Contains(log, name) == \E i \in 1..Len(log) : log[i] = name

\* C5: a non-nil AuthResult of Authenticate has exactly one of Claims and User:
\* Claims only from the access-token path, User only from the PAT path or the
\* remote-delegated path.
C5_ExactlyOnePrincipal ==
    \A p \in Procs :
        call[p].result # Nil =>
            LET r == call[p].result[1]
                isPAT == call[p].authHeader.cred.prefix = PersonalAccessTokenPrefix
            IN  /\ (r.Claims # Nil) # (r.User # Nil)
                /\ r.Claims # Nil => (~isPAT /\ call[p].log = <<"ParseAccessTokenV2">>)
                /\ r.User # Nil => \/ isPAT /\ call[p].log = <<"GetUserByPATHash">>
                                   \/ ~isPAT /\ Contains(call[p].log, "LinkinInfo")

\* The remote-delegated path has returned a User and no Claims.
C5_Witness ==
    /\ pc[1] = "done" /\ call[1].result # Nil
    /\ Contains(call[1].log, "LinkinInfo")
    /\ call[1].result[1].User # Nil /\ call[1].result[1].Claims = Nil

\* A header from which no bearer token is extracted: empty, of another scheme,
\* or with no credential.
NoBearerToken(h) == ~IsBearer(h) \/ h.cred = EmptyString

\* C6: Authenticate with a header that yields no bearer token returns nil at
\* once, having called neither the token codec, nor the store, nor the remote
\* identity endpoint.
C6_NoTokenNoCalls ==
    \A p \in Procs :
        (pc[p] # "idle" /\ NoBearerToken(call[p].authHeader))
            => (pc[p] = "done" /\ call[p].result = Nil /\ call[p].log = <<>>)

\* A header of another scheme was rejected without any call.
C6_Witness ==
    /\ pc[1] = "done" /\ call[1].authHeader = Header("Basic", Garbage)
    /\ call[1].result = Nil /\ call[1].log = <<>>

\* A step in which client.Do returns to caller p.
Responded(p) == pc[p] = "linkin_wait" /\ pc'[p] # "linkin_wait"

\* A response that names no user: a transport error, a status other than 200,
\* a body that does not decode, or an empty username.
BadResponse(resp) ==
    resp.err # "" \/ resp.StatusCode # 200 \/ ~resp.decodes \/ resp.Username = ""

GoodResponse(resp) == ~BadResponse(resp)

\* C7: on a response that names no user the remote-delegated path makes no
\* store call (no lookup, no CreateUser), creates no user, and Authenticate
\* returns nil.
C7_BadResponseNoShadow ==
    [][\A p \in Procs :
          (Responded(p) /\ BadResponse(call'[p].resp[1]))
              => /\ pc'[p] = "done"
                 /\ call'[p].result = Nil
                 /\ call'[p].log = call[p].log
                 /\ users' = users]_vars

\* A 200 response with an empty username ended the call unauthenticated.
C7_Witness ==
    /\ pc[1] = "done" /\ call[1].resp = <<Response("", 200, TRUE, "")>>
    /\ call[1].result = Nil

NameTaken(name) == \E u \in users : u.Username = name

\* C8: on a good response for a username no local user has, with the store
\* answering, the call goes on to CreateUser; and CreateUser for a username no
\* local user has adds exactly one user, with that username, an empty password
\* hash, the plain user role and Normal status, which Authenticate returns as
\* User, with no Claims.
C8_ShadowUserCreated ==
    [][\A p \in Procs :
          /\ (/\ Responded(p) /\ GoodResponse(call'[p].resp[1]) /\ storeUp
              /\ ~NameTaken(call'[p].resp[1].Username))
                 => (pc'[p] = "linkin_create" /\ users' = users)
          /\ (/\ pc[p] = "linkin_create" /\ pc'[p] = "done" /\ storeUp
              /\ ~NameTaken(call[p].resp[1].Username))
                 => \E u \in users' :
                       /\ u \notin users /\ users' = users \cup {u}
                       /\ u.Username = call[p].resp[1].Username
                       /\ u.PasswordHash = "" /\ u.Role = RoleUser /\ u.RowStatus = Normal
                       /\ call'[p].result =
                            <<[User |-> <<u>>, Claims |-> Nil,
                               AccessToken |-> call[p].authHeader.cred]>>]_vars

\* The shadow account of "newperson" was created and returned.
C8_Witness ==
    /\ pc[1] = "done" /\ call[1].result # Nil
    /\ Contains(call[1].log, "CreateUser")
    /\ call[1].result[1].User # Nil
    /\ call[1].result[1].User[1].Username = "newperson"
    /\ call[1].result[1].User[1] \in users

\* C9: when concurrent calls race to create the same new username, the call
\* that finds the username taken at CreateUser creates nothing and returns nil
\* (a soft outcome); a later call for a username that exists returns that
\* existing user; and no two users ever share a username.
C9_CreateRaceIsSoft ==
    [][/\ \A p \in Procs :
             /\ (/\ pc[p] = "linkin_create" /\ pc'[p] = "done"
                 /\ NameTaken(call[p].resp[1].Username))
                    => (users' = users /\ call'[p].result = Nil)
             /\ (/\ Responded(p) /\ GoodResponse(call'[p].resp[1]) /\ storeUp
                 /\ NameTaken(call'[p].resp[1].Username))
                    => /\ pc'[p] = "done"
                       /\ users' = users
                       /\ call'[p].result # Nil
                       /\ call'[p].result[1].Claims = Nil
                       /\ call'[p].result[1].User # Nil
                       /\ call'[p].result[1].User[1] \in users
                       /\ call'[p].result[1].User[1].Username = call'[p].resp[1].Username
       /\ \A u1, u2 \in users' : u1.Username = u2.Username => u1 = u2]_vars

\* Two calls raced for "newperson": both reached CreateUser, one returned the
\* created user and the other returned nil.
C9_Witness ==
    \E p, q \in Procs :
        /\ p # q /\ pc[p] = "done" /\ pc[q] = "done"
        /\ Contains(call[p].log, "CreateUser") /\ Contains(call[q].log, "CreateUser")
        /\ call[p].resp[1].Username = "newperson" /\ call[q].resp[1].Username = "newperson"
        /\ call[p].result = Nil
        /\ call[q].result # Nil /\ call[q].result[1].User[1].Username = "newperson"

\* C10: a successful PAT authentication returns in the step that starts the
\* detached update, before the update has run; a detached update is started by
\* nothing else; a step of a detached update, whatever its outcome, changes no
\* caller's state; and a result that has been returned never changes.
C10_UpdateIsDetached ==
    [][/\ \A p \in Procs :
             /\ (Entered(p) /\ call'[p].result # Nil /\ call'[p].result[1].User # Nil)
                    => /\ pc'[p] = "done"
                       /\ BagCardinality(pending') = BagCardinality(pending) + 1
                       /\ pats' = pats
             /\ (pc[p] = "done" /\ pc'[p] = "done") => call'[p] = call[p]
       /\ BagCardinality(pending') > BagCardinality(pending)
             => \E p \in Procs :
                   /\ Entered(p) /\ pc'[p] = "done"
                   /\ call'[p].authHeader.cred.prefix = PersonalAccessTokenPrefix
                   /\ call'[p].result # Nil /\ call'[p].result[1].User # Nil
       /\ (pending' # pending /\ BagCardinality(pending') <= BagCardinality(pending))
             => (pc' = pc /\ call' = call)]_vars

\* A PAT authentication stands returned although its update has failed: the
\* update is finished and logged a warning, and the row was never stamped.
C10_Witness ==
    /\ pc[1] = "done" /\ call[1].result # Nil /\ call[1].result[1].User # Nil
    /\ call[1].authHeader.cred.prefix = PersonalAccessTokenPrefix
    /\ pending = EmptyBag /\ warned
    /\ \A row \in pats : row.LastUsedAt = Nil

\* The PAT rows stored under the hash of a token string.
RowsOf(t) == { row \in pats : row.TokenHash = <<"sha256", t.prefix, t.body>> }

\* The store has no record for the token, or its lookup errors, or the record
\* has expired.
PATInvalid(t) ==
    \/ ~storeUp
    \/ RowsOf(t) = {}
    \/ \E row \in RowsOf(t) : row.ExpiresAt # Nil /\ row.ExpiresAt[1] < now

\* C11: for a PAT-prefixed token with no record, a failing lookup or an expired
\* record, AuthenticateByPAT returns an error and neither user nor PAT, and
\* Authenticate returns nil at once without starting a last-used update.
C11_InvalidPATRejected ==
    [][/\ LET r == ret'["AuthenticateByPAT"][1]
          IN  (/\ Called("AuthenticateByPAT")
               /\ r.arg.prefix = PersonalAccessTokenPrefix /\ PATInvalid(r.arg))
                  => (r.err # "" /\ r.user = Nil /\ r.pat = Nil)
       /\ \A p \in Procs :
             LET h == call'[p].authHeader
             IN  (/\ Entered(p) /\ IsBearer(h)
                  /\ h.cred.prefix = PersonalAccessTokenPrefix /\ PATInvalid(h.cred))
                     => /\ pc'[p] = "done"
                        /\ call'[p].result = Nil
                        /\ pending' = pending
                        /\ pats' = pats]_vars

\* An expired PAT was refused by the standalone operation and by Authenticate,
\* with no update in flight.
C11_Witness ==
    /\ ret["AuthenticateByPAT"] # Nil
    /\ ret["AuthenticateByPAT"][1].err = "PAT expired"
    /\ pc[1] = "done" /\ call[1].result = Nil
    /\ call[1].authHeader = Header("Bearer", Str(PersonalAccessTokenPrefix, "abc123"))
    /\ call[1].log = <<"GetUserByPATHash">>
    /\ pats # {} /\ storeUp /\ PATInvalid(call[1].authHeader.cred)
    /\ pending = EmptyBag

\* The refresh-token rows of a token's (subject user id, token id).
RefreshRowsOf(t) ==
    { r \in refreshTokens : IsDecimal(t.sub) /\ r.UserID = Decimal[t.sub] /\ r.TokenID = t.tid }

\* The token verifies: a refresh token signed with the server's secret and
\* not expired.
Verifies(t) == ValidlySigned(t) /\ t.exp >= now

RowLive(r) == r.ExpiresAt = Nil \/ r.ExpiresAt[1] >= now

\* The users whose id is the token's subject.
OwnersOf(t) == { u \in users : IsDecimal(t.sub) /\ u.ID = Decimal[t.sub] }

\* C12: AuthenticateByRefreshToken succeeds exactly when the token verifies,
\* its subject is numeric, the answering store holds an unexpired row for
\* (subject, token id) and the subject's user exists and is not Archived; it
\* then returns that user and the token id of the claims; otherwise it returns
\* no user and the error of the first cause that fails, 'revoked' for a
\* missing row, 'expired' for an expired row, 'invalid' for a token that does
\* not verify.
C12_RefreshSucceedsIff ==
    [][LET r == ret'["AuthenticateByRefreshToken"][1]
           t == r.arg
           ok == /\ Verifies(t) /\ IsDecimal(t.sub) /\ storeUp
                 /\ \E row \in RefreshRowsOf(t) : RowLive(row)
                 /\ \E u \in OwnersOf(t) : u.RowStatus # Archived
       IN  Called("AuthenticateByRefreshToken") =>
             /\ (r.err = "") <=> ok
             /\ r.err = "" => /\ r.user # Nil /\ r.user[1] \in OwnersOf(t)
                              /\ r.tokenID = t.tid
             /\ r.err # "" => (r.user = Nil /\ r.tokenID = "")
             /\ ~Verifies(t) => r.err = "invalid refresh token"
             /\ (Verifies(t) /\ ~IsDecimal(t.sub)) => r.err = "invalid user ID in token"
             /\ (Verifies(t) /\ IsDecimal(t.sub) /\ storeUp) =>
                  /\ RefreshRowsOf(t) = {} => r.err = "refresh token revoked"
                  /\ (\E row \in RefreshRowsOf(t) : ~RowLive(row))
                        => r.err = "refresh token expired"
                  /\ (\E row \in RefreshRowsOf(t) : RowLive(row)) =>
                        /\ OwnersOf(t) = {} => r.err = "user not found"
                        /\ (\E u \in OwnersOf(t) : u.RowStatus = Archived)
                              => r.err = "user is archived"]_vars

\* User 1's token "r1" with a live row was accepted: the call returned user 1
\* and "r1".
C12_Witness ==
    /\ ret["AuthenticateByRefreshToken"] # Nil
    /\ LET r == ret["AuthenticateByRefreshToken"][1]
       IN  /\ r.err = "" /\ r.user # Nil /\ r.user[1].ID = 1 /\ r.tokenID = "r1"
           /\ r.arg.sub = "1" /\ RefreshRowsOf(r.arg) # {}

\* How many times a call appears in a log.
Count(log, name) == Cardinality({ i \in 1..Len(log) : log[i] = name })

\* C13: the remote identity endpoint is called at most once per Authenticate
\* call, and only for a non-empty bearer token without the PAT prefix on which
\* the access-token path was tried first and failed; for a PAT-prefixed token
\* neither the token codec nor the remote endpoint is ever called, whether
\* the PAT path succeeds or not.
C13_PathSelection ==
    \A p \in Procs :
        LET h == call[p].authHeader
            log == call[p].log
        IN  /\ Count(log, "LinkinInfo") <= 1
            /\ Contains(log, "LinkinInfo")
                  => /\ IsBearer(h) /\ h.cred # EmptyString
                     /\ h.cred.prefix # PersonalAccessTokenPrefix
                     /\ log[1] = "ParseAccessTokenV2" /\ log[2] = "LinkinInfo"
                     /\ ~ValidAccessToken(h.cred, now)
            /\ pc[p] \in {"linkin_wait", "linkin_create"} => Contains(log, "LinkinInfo")
            /\ (pc[p] # "idle" /\ IsBearer(h) /\ h.cred.prefix = PersonalAccessTokenPrefix)
                  => (pc[p] = "done" /\ log = <<"GetUserByPATHash">>)

\* A PAT-prefixed token that the PAT path refused was not forwarded anywhere.
C13_Witness ==
    /\ pc[1] = "done" /\ call[1].result = Nil
    /\ call[1].authHeader = Header("Bearer", Str(PersonalAccessTokenPrefix, "abc124"))
    /\ call[1].log = <<"GetUserByPATHash">>

\* A header whose bearer token goes to the access-token path.
AccessPathHeader(h) ==
    IsBearer(h) /\ h.cred # EmptyString /\ h.cred.prefix # PersonalAccessTokenPrefix

\* C14: when the access-token path fails (malformed token, wrong secret,
\* expired, non-numeric subject), Authenticate goes on to the remote path with
\* nothing returned yet, and the call ends with the remote path's outcome: nil
\* on a response that names no user, otherwise nil or a User of the response's
\* username, never Claims.
C14_AccessFailureFallsThrough ==
    [][\A p \in Procs :
          LET h == call'[p].authHeader
              res == call'[p].result
          IN  /\ (Entered(p) /\ AccessPathHeader(h) /\ ~ValidAccessToken(h.cred, now))
                    => /\ pc'[p] = "linkin_wait"
                       /\ res = Nil
                       /\ call'[p].log = <<"ParseAccessTokenV2", "LinkinInfo">>
                       /\ UNCHANGED <<users, refreshTokens, pats, pending>>
              /\ (Returned(p) /\ Contains(call'[p].log, "LinkinInfo"))
                    => /\ BadResponse(call'[p].resp[1]) => res = Nil
                       /\ res # Nil =>
                            /\ res[1].Claims = Nil /\ res[1].User # Nil
                            /\ res[1].User[1].Username = call'[p].resp[1].Username
                            /\ res[1].User[1] \in users']_vars

\* A token with a non-numeric subject, validly signed and unexpired, failed
\* the access-token path and the call authenticated through the remote path.
C14_Witness ==
    /\ pc[1] = "done" /\ call[1].result # Nil
    /\ call[1].authHeader.cred.key = ServerSecret /\ call[1].authHeader.cred.sub = "x"
    /\ call[1].authHeader.cred.exp >= now
    /\ call[1].result[1].User # Nil

\* C15: when the remote username is that of an existing local user, the
\* remote path returns exactly that stored record as User and changes nothing
\* in the store: no user is created and no field of any user is modified.
C15_ExistingUserUntouched ==
    [][\A p \in Procs :
          LET resp == call'[p].resp[1]
          IN  (Responded(p) /\ GoodResponse(resp) /\ storeUp /\ NameTaken(resp.Username))
                 => /\ pc'[p] = "done"
                    /\ \E u \in users :
                          /\ u.Username = resp.Username
                          /\ call'[p].result =
                               <<[User |-> <<u>>, Claims |-> Nil,
                                  AccessToken |-> call[p].authHeader.cred]>>
                    /\ UNCHANGED <<users, refreshTokens, pats, pending>>]_vars

\* The remote path returned alice, an administrator with a password, as she
\* is stored.
C15_Witness ==
    /\ pc[1] = "done" /\ Contains(call[1].log, "LinkinInfo")
    /\ call[1].result # Nil /\ call[1].result[1].User # Nil
    /\ call[1].result[1].User[1].Username = "alice"
    /\ call[1].result[1].User[1].Role = RoleAdmin
    /\ call[1].result[1].User[1].PasswordHash = "hash-alice"
    /\ call[1].result[1].User[1] \in users

\* C16: a call of Authenticate that waits for the remote endpoint, or is about
\* to create the shadow account, eventually returns; and a call whose request
\* ended in a transport error (the timeout) returns nil.
C16_AuthenticateTerminates ==
    /\ (pc[1] \in {"linkin_wait", "linkin_create"}) ~> (pc[1] = "done")
    /\ [](( /\ pc[1] = "done" /\ call[1].resp # Nil /\ call[1].resp[1].err # "")
              => call[1].result = Nil)

\* A request was ended by the timeout and the call returned nil.
C16_Witness ==
    /\ pc[1] = "done" /\ call[1].resp # Nil
    /\ call[1].resp[1].err = "timeout" /\ call[1].result = Nil

\* The step is the store write of the detached update task.
Wrote(task) ==
    /\ task.ts # Nil /\ BagIn(task, pending)
    /\ pending' = pending (-) SetToBag({task})

\* The token has a record that has not expired, owned by a user in good
\* standing, in a store that answers.
PATLive(t) ==
    /\ storeUp /\ RowsOf(t) # {}
    /\ \A row \in RowsOf(t) :
          /\ RowLive(row)
          /\ \E u \in users : u.ID = row.UserID /\ u.RowStatus = Normal

\* C17: a use of a live PAT through Authenticate succeeds whatever updates
\* are in flight and whatever the record's last-used time; and the store write
\* of a detached update sets the record's last-used time to that update's own
\* stamp, whatever time is stored, so that the last write wins.
C17_LastWriteWins ==
    [][/\ \A p \in Procs :
             LET h == call'[p].authHeader
             IN  (Entered(p) /\ IsBearer(h) /\ PATLive(h.cred))
                    => /\ pc'[p] = "done"
                       /\ call'[p].result # Nil
                       /\ call'[p].result[1].User # Nil
                       /\ \E row \in RowsOf(h.cred) :
                             call'[p].result[1].User[1].ID = row.UserID
       /\ \A task \in BagToSet(pending) :
             (/\ Wrote(task) /\ storeUp
              /\ \E r \in pats : r.UserID = task.UserID /\ r.TokenId = task.TokenId)
                => pats' = { IF r.UserID = task.UserID /\ r.TokenId = task.TokenId
                             THEN [r EXCEPT !.LastUsedAt = task.ts] ELSE r : r \in pats }]_vars

\* Both callers used the PAT with success; the later update has been written
\* and the earlier one, stamped before it, is still to be written.
C17_Witness ==
    /\ \A p \in Procs : pc[p] = "done" /\ call[p].result # Nil
    /\ \E row \in pats : row.LastUsedAt = <<1>>
    /\ \E task \in BagToSet(pending) : task.ts = <<0>>

\* The step is one of the authenticator: a call enters, proceeds or returns,
\* or a detached update proceeds.
AuthenticatorStep == <<pc, call, ret, pending, warned>>' # <<pc, call, ret, pending, warned>>

\* C18: a step of the authenticator never changes the refresh-token rows; it
\* changes users only by CreateUser of the remote path, adding one user of a
\* username not seen before; it changes PAT rows only by the write of a
\* detached update, in the last-used time; an update is scheduled only by a
\* call of Authenticate that matched a PAT; the standalone operations and the
\* entering step of Authenticate, successful or not, leave the store as it is.
C18_OnlyTwoMutations ==
    [][AuthenticatorStep =>
          /\ refreshTokens' = refreshTokens
          /\ users' # users =>
                \E p \in Procs :
                   /\ pc[p] = "linkin_create" /\ pc'[p] = "done"
                   /\ ~NameTaken(call[p].resp[1].Username)
                   /\ \E u \in users' :
                         /\ u.Username = call[p].resp[1].Username
                         /\ users' = users \cup {u}
          /\ pats' # pats =>
                \E task \in BagToSet(pending) :
                   /\ Wrote(task)
                   /\ pats' = { IF r.UserID = task.UserID /\ r.TokenId = task.TokenId
                                THEN [r EXCEPT !.LastUsedAt = task.ts] ELSE r : r \in pats }
          /\ BagCardinality(pending') > BagCardinality(pending) =>
                \E p \in Procs :
                   /\ Entered(p) /\ pc'[p] = "done"
                   /\ call'[p].authHeader.cred.prefix = PersonalAccessTokenPrefix
                   /\ call'[p].result # Nil
                   /\ BagCardinality(pending') = BagCardinality(pending) + 1
          /\ (\E op \in StandaloneOps : Called(op)) =>
                UNCHANGED <<users, refreshTokens, pats, pending>>
          /\ \A p \in Procs :
                Entered(p) =>
                   /\ UNCHANGED <<users, refreshTokens, pats>>
                   /\ (call'[p].result = Nil \/ call'[p].result[1].Claims # Nil)
                         => pending' = pending]_vars

\* Every operation has run with success: the remote path created a shadow
\* user, a detached update wrote the last-used time, and both standalone
\* operations returned their user, the refresh-token row still in place.
C18_Witness ==
    /\ \E u \in users : u.Username = "newperson"
    /\ \E row \in pats : row.LastUsedAt # Nil
    /\ ret["AuthenticateByPAT"] # Nil /\ ret["AuthenticateByPAT"][1].err = ""
    /\ ret["AuthenticateByRefreshToken"] # Nil
    /\ ret["AuthenticateByRefreshToken"][1].err = ""
    /\ refreshTokens = {RefreshRow(1, "r1", Nil)}
    /\ pc[1] = "done" /\ call[1].result # Nil /\ call[1].result[1].Claims # Nil

\* The row's expiry is set and strictly before the current time.
PastExpiry(row) == row.ExpiresAt # Nil /\ row.ExpiresAt[1] < now

\* C19: for a PAT whose record the answering store holds, and for a refresh
\* token that verifies and whose row the answering store holds, the call is
\* rejected as expired exactly when the row's expiry is set and strictly before
\* the current time; a row without expiry is never rejected as expired and,
\* its user stored and not archived, the call returns that user.
C19_ExpiryCheck ==
    [][/\ LET r == ret'["AuthenticateByPAT"][1]
          IN  (Called("AuthenticateByPAT") /\ storeUp) =>
                 \A row \in RowsOf(r.arg) :
                    /\ (r.err = "PAT expired") <=> PastExpiry(row)
                    /\ (row.ExpiresAt = Nil /\ ~IsArchived(row.UserID))
                          => (r.err = "" /\ r.user # Nil /\ r.user[1].ID = row.UserID)
       /\ LET r == ret'["AuthenticateByRefreshToken"][1]
          IN  (Called("AuthenticateByRefreshToken") /\ storeUp /\ Verifies(r.arg)) =>
                 \A row \in RefreshRowsOf(r.arg) :
                    /\ (r.err = "refresh token expired") <=> PastExpiry(row)
                    /\ (row.ExpiresAt = Nil /\ \E u \in OwnersOf(r.arg) : u.RowStatus # Archived)
                          => (r.err = "" /\ r.user # Nil /\ r.user[1].ID = row.UserID)]_vars

\* At the last clock value a PAT without expiry was accepted and a refresh
\* token whose row expired at clock 0 was rejected as expired.
C19_Witness ==
    /\ now = MaxClock
    /\ ret["AuthenticateByPAT"] # Nil /\ ret["AuthenticateByPAT"][1].err = ""
    /\ \A row \in RowsOf(ret["AuthenticateByPAT"][1].arg) : row.ExpiresAt = Nil
    /\ RowsOf(ret["AuthenticateByPAT"][1].arg) # {}
    /\ ret["AuthenticateByRefreshToken"] # Nil
    /\ ret["AuthenticateByRefreshToken"][1].err = "refresh token expired"
    /\ \E row \in RefreshRowsOf(ret["AuthenticateByRefreshToken"][1].arg) :
          row.ExpiresAt = <<0>>

====
